---- MODULE Spec2Model ----
(***************************************************************************)
(* gindex.py: for every sub-directory of the working directory, write an   *)
(* index.md holding a nested Markdown list of its Markdown files and       *)
(* directories.                                                            *)
(*                                                                         *)
(* A name is a sequence of one-character strings, a path is a sequence of  *)
(* names below the working directory (<<>> is the working directory), and  *)
(* the file system maps every existing path to what is there.  The tree is *)
(* built by the environment before the script starts (pc = "setup"); the   *)
(* script is then run MaxRuns times on the tree it finds.                  *)
(***************************************************************************)
EXTENDS Integers, Sequences, FiniteSets, TLC

\* ---------------------------------------------------------------- bounds
MaxSetup == 4    \* file-system operations of the environment before the run
MaxRuns  == 2    \* successive runs of the script

\* ---------------------------------------------------------------- names
N_p        == <<"p">>
N_q        == <<"q">>
N_a        == <<"a">>
N_c        == <<"c">>
N_git      == <<".", "g", "i", "t">>
N_pycache  == <<"_", "_", "p", "y", "c", "a", "c", "h", "e", "_", "_">>
N_DS_Store == <<".", "D", "S", "_", "S", "t", "o", "r", "e">>
N_index_md == <<"i", "n", "d", "e", "x", ".", "m", "d">>
N_z_md     == <<"z", ".", "m", "d">>
N_b_md     == <<"b", ".", "m", "d">>
N_n_txt    == <<"n", ".", "t", "x", "t">>
N_a_bs_b   == <<"a", "\\", "b">>
N_d_bs_md  == <<"d", "\\", "e", ".", "m", "d">>
DotMd      == <<".", "m", "d">>
Dot        == <<".">>
Slash      == "/"
Backslash  == "\\"

\* Code points of the characters that occur in the names above.
Ord(ch) ==
    CASE ch = "." -> 46  [] ch = "/" -> 47  [] ch = "D" -> 68  [] ch = "S" -> 83
      [] ch = "\\" -> 92 [] ch = "_" -> 95  [] ch = "a" -> 97  [] ch = "b" -> 98
      [] ch = "c" -> 99  [] ch = "d" -> 100 [] ch = "e" -> 101 [] ch = "g" -> 103
      [] ch = "h" -> 104 [] ch = "i" -> 105 [] ch = "m" -> 109 [] ch = "n" -> 110
      [] ch = "o" -> 111 [] ch = "p" -> 112 [] ch = "q" -> 113 [] ch = "r" -> 114
      [] ch = "t" -> 116 [] ch = "x" -> 120 [] ch = "y" -> 121 [] ch = "z" -> 122

\* Python's str comparison: by code point, a proper prefix first.
RECURSIVE StrLess(_, _)
StrLess(s, t) ==
    IF t = <<>> THEN FALSE
    ELSE IF s = <<>> THEN TRUE
    ELSE IF Head(s) = Head(t) THEN StrLess(Tail(s), Tail(t))
    ELSE Ord(Head(s)) < Ord(Head(t))

\* sorted(): the ascending sequence of a set of distinct strings.
RECURSIVE sorted(_)
sorted(S) ==
    IF S = {} THEN <<>>
    ELSE LET m == CHOOSE x \in S : \A y \in S \ {x} : StrLess(x, y)
         IN <<m>> \o sorted(S \ {m})

\* str.endswith
endswith(s, suffix) ==
    /\ Len(s) >= Len(suffix)
    /\ SubSeq(s, Len(s) - Len(suffix) + 1, Len(s)) = suffix

\* str.replace(old, new) for one-character old and new
replace(s, old, new) == [i \in 1..Len(s) |-> IF s[i] = old THEN new ELSE s[i]]

\* sep.join(parts)
RECURSIVE join(_, _)
join(sep, parts) ==
    IF parts = <<>> THEN <<>>
    ELSE IF Len(parts) = 1 THEN parts[1]
    ELSE parts[1] \o <<sep>> \o join(sep, Tail(parts))

\* ---------------------------------------------------------------- state
VARIABLES
    conv,       \* host path convention: "posix" (separator /) or "nt" (separator \)
    fs,         \* path -> [kind, r, x, content]
    pc,         \* "setup", "loop", "opened", "done", "exit1"
    todo,       \* main: the directories the for loop has still to visit
    invoked,    \* the calls of generate_markdown_index of this run: <<root, out>>
    stdout,     \* what this run printed
    exitStatus, \* exit status of the last run that ended, -1 before
    run,        \* runs that have ended
    rendered,   \* the last result of generate_nested_list for a scan root
    firstRun    \* the index.md files as the first run left them

vars == <<conv, fs, pc, todo, invoked, stdout, exitStatus, run, rendered, firstRun>>

sep == IF conv = "nt" THEN Backslash ELSE Slash

\* The names the environment draws from.  A name holds no separator of the host:
\* a backslash can occur in a name under "posix" only.
FileNames == {N_z_md, N_index_md, N_n_txt} \cup
             (IF conv = "posix" THEN {N_d_bs_md} ELSE {N_b_md})
DirNames  == {N_a, N_git, N_pycache, N_index_md} \cup
             (IF conv = "posix" THEN {N_a_bs_b} ELSE {N_c})
TopDirNames == {N_p, N_q, N_DS_Store}

Dir(r, x)  == [kind |-> "dir", r |-> r, x |-> x, content |-> <<>>]
File(c)    == [kind |-> "file", r |-> TRUE, x |-> FALSE, content |-> c]
OldContent == <<[kind |-> "old", indent |-> 0, text |-> <<>>, link |-> <<>>]>>

Parent(path) == SubSeq(path, 1, Len(path) - 1)
Base(path)   == path[Len(path)]

\* ---------------------------------------------------------------- os
\* stat(path) succeeds: the path exists and every directory above it can be searched.
CanStat(path) ==
    /\ path \in DOMAIN fs
    /\ \A i \in 0..(Len(path) - 1) : fs[SubSeq(path, 1, i)].x

isdir(path)  == CanStat(path) /\ fs[path].kind = "dir"
isfile(path) == CanStat(path) /\ fs[path].kind = "file"

\* os.listdir raises PermissionError unless the directory can be read.
ListDenied(path) == ~fs[path].r
listdir(path) == {Base(q) : q \in {q \in DOMAIN fs : q # <<>> /\ Parent(q) = path}}

\* os.path.join(path, name); the path stays a sequence of components
PathJoin(path, name) == Append(path, name)

\* os.path.relpath(current_path, root_path) for a current_path at or below root_path
relpath(current_path, root_path) ==
    IF current_path = root_path THEN Dot
    ELSE join(sep, SubSeq(current_path, Len(root_path) + 1, Len(current_path)))

\* open(path, 'w') succeeds: the directory can be searched and written, and the
\* path is not a directory.
CanOpenW(path) ==
    /\ \A i \in 0..(Len(path) - 1) : fs[SubSeq(path, 1, i)].x
    /\ path \in DOMAIN fs => fs[path].kind = "file"

\* ---------------------------------------------------------------- generate_nested_list
IndentWidth == 4

Line(kind, indent, text, link) ==
    [kind |-> kind, indent |-> indent, text |-> text, link |-> link]

\* mutant: only '.git' is in the set
is_ignored_dir_GitOnly(dir_name) == dir_name = N_git

is_ignored_dir(dir_name) == dir_name \in {N_git, N_pycache, N_DS_Store}

\* indent = "    " * base_indent, kept as its number of spaces
Indent(base_indent) == IndentWidth * base_indent

\* mutant: the marker is returned without the indent
DeniedLine_NoIndent(base_indent) == Line("denied", 0, <<>>, <<>>)

\* return f"{indent}* [...]\n", the line that marks a directory as inaccessible
DeniedLine(base_indent) == Line("denied", Indent(base_indent), <<>>, <<>>)

\* mutant: the listing is sorted in descending order
Items_Descending(current_path) ==
    LET up == sorted(listdir(current_path))
    IN  [i \in 1..Len(up) |-> up[Len(up) + 1 - i]]

\* items = sorted(os.listdir(current_path))
Items(current_path) == sorted(listdir(current_path))

\* mutant: index.md is skipped before the item is classified
IsDirectoryItem_SkipsIndex(current_path, item) ==
    /\ item # N_index_md
    /\ isdir(PathJoin(current_path, item))
    /\ ~is_ignored_dir(item)

\* if os.path.isdir(item_path) and not is_ignored_dir(item)
IsDirectoryItem(current_path, item) ==
    /\ isdir(PathJoin(current_path, item))
    /\ ~is_ignored_dir(item)

\* mutant: index.md is not excluded
IsMarkdownItem_KeepsIndex(current_path, item) ==
    /\ ~IsDirectoryItem(current_path, item)
    /\ isfile(PathJoin(current_path, item))
    /\ endswith(item, DotMd)

\* elif os.path.isfile(item_path) and item.endswith('.md') and item != 'index.md'
IsMarkdownItem(current_path, item) ==
    /\ ~IsDirectoryItem(current_path, item)
    /\ isfile(PathJoin(current_path, item))
    /\ endswith(item, DotMd)
    /\ item # N_index_md

directories(current_path) ==
    SelectSeq(Items(current_path), LAMBDA item : IsDirectoryItem(current_path, item))

markdown_files(current_path) ==
    SelectSeq(Items(current_path), LAMBDA item : IsMarkdownItem(current_path, item))

\* display_name = md_file[:-3]
display_name(md_file) == SubSeq(md_file, 1, Len(md_file) - 3)

\* mutant: the separators are left as os.path.relpath gave them
NormalizeSeparators_None(relative_dir) == relative_dir

\* relative_dir = relative_dir.replace('\\', '/')
NormalizeSeparators(relative_dir) == replace(relative_dir, Backslash, Slash)

file_link(root_path, current_path, md_file) ==
    LET relative_dir == relpath(current_path, root_path)
    IN  IF relative_dir = Dot THEN md_file
        ELSE NormalizeSeparators(relative_dir) \o <<Slash>> \o md_file

\* f"{indent}* [{display_name}]({file_link})\n"
FileLine(root_path, current_path, base_indent, md_file) ==
    Line("file", Indent(base_indent), display_name(md_file),
         file_link(root_path, current_path, md_file))

\* f"{indent}* {directory}\n"
DirLine(base_indent, directory) == Line("dir", Indent(base_indent), directory, <<>>)

\* The result of a call: out is the returned text, line by line; src names, for
\* each line of out, the call that appended it and the item it is for; calls
\* lists the calls made, in order, with their base_indent.
Src(current_path, item) == [dir |-> current_path, item |-> item]
Call(current_path, base_indent) == [path |-> current_path, depth |-> base_indent]
NoLines == [out |-> <<>>, src |-> <<>>, calls |-> <<>>]
Cat(a, b) == [out |-> a.out \o b.out, src |-> a.src \o b.src, calls |-> a.calls \o b.calls]

RECURSIVE generate_nested_list(_, _, _)
RECURSIVE RenderDirectories(_, _, _, _)

generate_nested_list(root_path, current_path, base_indent) ==
    IF ListDenied(current_path)
    THEN [out   |-> <<DeniedLine(base_indent)>>,
          src   |-> <<Src(current_path, <<>>)>>,
          calls |-> <<Call(current_path, base_indent)>>]
    ELSE LET files == markdown_files(current_path)
             own == [out   |-> [i \in 1..Len(files) |->
                                  FileLine(root_path, current_path, base_indent, files[i])],
                     src   |-> [i \in 1..Len(files) |-> Src(current_path, files[i])],
                     calls |-> <<Call(current_path, base_indent)>>]
         IN  Cat(own, RenderDirectories(root_path, current_path,
                                        directories(current_path), base_indent))

\* for directory in directories: ...
RenderDirectories(root_path, current_path, dirs, base_indent) ==
    IF dirs = <<>> THEN NoLines
    ELSE LET directory == Head(dirs)
             dir_path == PathJoin(current_path, directory)
             entry == [out   |-> <<DirLine(base_indent, directory)>>,
                       src   |-> <<Src(current_path, directory)>>,
                       calls |-> <<>>]
             sub_list == generate_nested_list(root_path, dir_path, base_indent + 1)
         IN  Cat(Cat(entry, sub_list),
                 RenderDirectories(root_path, current_path, Tail(dirs), base_indent))

\* ---------------------------------------------------------------- generate_markdown_index
H1(root_name) == Line("h1", 0, root_name, <<>>)
H2            == Line("h2", 0, <<>>, <<>>)
Blank         == Line("blank", 0, <<>>, <<>>)
Placeholder   == Line("empty", 0, <<>>, <<>>)
Header(root_name) == <<H1(root_name), Blank, H2, Blank>>

\* mutant: the file is opened in append mode
OpenedContent_Append(output_file) == fs[output_file].content

\* open(output_file, 'w'): what the file holds right after it is opened
OpenedContent(output_file) == <<>>

\* mutant: an empty list is written as it is
Body_NoPlaceholder(nested_list) == nested_list

\* if nested_list.strip(): every line holds a '*', so the list is blank iff it has no line
Body(nested_list) == IF nested_list # <<>> THEN nested_list ELSE <<Placeholder>>

IndexPath(root_path) == PathJoin(root_path, N_index_md)

\* ---------------------------------------------------------------- main
Msg(msg, arg) == [msg |-> msg, arg |-> arg]

Perms(S) == {f \in [1..Cardinality(S) -> S] : \A i, j \in 1..Cardinality(S) : f[i] = f[j] => i = j}

\* directories = [item for item in items if isdir(join(current_dir, item)) and not is_ignored_dir(item)]
MainDirectories == {item \in listdir(<<>>) : isdir(<<item>>) /\ ~is_ignored_dir(item)}

NoRender == [root |-> <<>>, out |-> <<>>, src |-> <<>>, calls |-> <<>>]

Init ==
    /\ conv \in {"posix", "nt"}
    /\ fs = (<<>> :> Dir(TRUE, TRUE))
    /\ pc = "setup"
    /\ todo = <<>>
    /\ invoked = <<>>
    /\ stdout = <<>>
    /\ exitStatus = -1
    /\ run = 0
    /\ rendered = NoRender
    /\ firstRun = fs

\* ---- the environment, before the script runs
Used == (Cardinality(DOMAIN fs) - 1)
        + Cardinality({p \in DOMAIN fs : fs[p].kind = "dir" /\ ~(fs[p].r /\ fs[p].x)})

Dirs == {p \in DOMAIN fs : fs[p].kind = "dir"}

Mkdir ==
    /\ pc = "setup" /\ Used < MaxSetup
    /\ \E parent \in Dirs :
         \E name \in (IF parent = <<>> THEN TopDirNames ELSE DirNames) :
            /\ PathJoin(parent, name) \notin DOMAIN fs
            /\ fs' = fs @@ (PathJoin(parent, name) :> Dir(TRUE, TRUE))
    /\ UNCHANGED <<conv, pc, todo, invoked, stdout, exitStatus, run, rendered, firstRun>>

Touch ==
    /\ pc = "setup" /\ Used < MaxSetup
    /\ \E parent \in Dirs \ {<<>>} :
         \E name \in FileNames :
            /\ PathJoin(parent, name) \notin DOMAIN fs
            /\ fs' = fs @@ (PathJoin(parent, name) :> File(OldContent))
    /\ UNCHANGED <<conv, pc, todo, invoked, stdout, exitStatus, run, rendered, firstRun>>

\* chmod of a directory: unreadable (listing it raises PermissionError) or
\* unsearchable (stat and open of its entries fail)
Chmod ==
    /\ pc = "setup" /\ Used < MaxSetup
    /\ \E p \in Dirs : \E r, x \in BOOLEAN :
         /\ fs[p].r /\ fs[p].x
         /\ r # x
         /\ fs' = [fs EXCEPT ![p] = Dir(r, x)]
    /\ UNCHANGED <<conv, pc, todo, invoked, stdout, exitStatus, run, rendered, firstRun>>

\* ---- main()
CanStart == pc \in {"setup", "done", "exit1"} /\ run < MaxRuns

\* except PermissionError: print(...); sys.exit(1)
MainListDenied ==
    /\ CanStart
    /\ ListDenied(<<>>)
    /\ stdout' = <<Msg("cwd_denied", <<>>)>>
    /\ invoked' = <<>>
    /\ exitStatus' = 1
    /\ pc' = "exit1"
    /\ run' = run + 1
    /\ firstRun' = IF run = 0 THEN fs ELSE firstRun
    /\ UNCHANGED <<conv, fs, todo, rendered>>

\* if not directories: print(...); return
MainNoDirectories ==
    /\ CanStart
    /\ ~ListDenied(<<>>)
    /\ MainDirectories = {}
    /\ stdout' = <<Msg("no_directories", <<>>)>>
    /\ invoked' = <<>>
    /\ exitStatus' = 0
    /\ pc' = "done"
    /\ run' = run + 1
    /\ firstRun' = IF run = 0 THEN fs ELSE firstRun
    /\ UNCHANGED <<conv, fs, todo, rendered>>

\* the for loop starts; os.listdir gives the directories in an arbitrary order
MainBegin ==
    /\ CanStart
    /\ ~ListDenied(<<>>)
    /\ MainDirectories # {}
    /\ \E order \in Perms(MainDirectories) : todo' = order
    /\ stdout' = <<>>
    /\ invoked' = <<>>
    /\ pc' = "loop"
    /\ UNCHANGED <<conv, fs, exitStatus, run, rendered, firstRun>>

\* mutant: the exception is not caught and ends the run
GenOpenFails_Uncaught ==
    /\ pc = "loop" /\ todo # <<>>
    /\ LET directory == Head(todo)
           dir_path == PathJoin(<<>>, directory)
           output_file == IndexPath(dir_path)
       IN  /\ ~CanOpenW(output_file)
           /\ invoked' = Append(invoked, <<dir_path, output_file>>)
    /\ pc' = "exit1"
    /\ exitStatus' = 1
    /\ run' = run + 1
    /\ firstRun' = IF run = 0 THEN fs ELSE firstRun
    /\ UNCHANGED <<conv, fs, todo, stdout, rendered>>

\* generate_markdown_index(dir_path, output_file) raises at open(); main catches
\* the exception, reports it and goes on
GenOpenFails ==
    /\ pc = "loop" /\ todo # <<>>
    /\ LET directory == Head(todo)
           dir_path == PathJoin(<<>>, directory)
           output_file == IndexPath(dir_path)
       IN  /\ ~CanOpenW(output_file)
           /\ invoked' = Append(invoked, <<dir_path, output_file>>)
           /\ stdout' = Append(stdout, Msg("error", directory))
    /\ todo' = Tail(todo)
    /\ UNCHANGED <<conv, fs, pc, exitStatus, run, rendered, firstRun>>

\* generate_markdown_index up to open(output_file, 'w'): the output directory is
\* dir_path, which exists, so makedirs is skipped; the file is created or truncated
GenOpen ==
    /\ pc = "loop" /\ todo # <<>>
    /\ LET directory == Head(todo)
           dir_path == PathJoin(<<>>, directory)
           output_file == IndexPath(dir_path)
       IN  /\ CanOpenW(output_file)
           /\ invoked' = Append(invoked, <<dir_path, output_file>>)
           /\ fs' = IF output_file \in DOMAIN fs
                    THEN [fs EXCEPT ![output_file].content = OpenedContent(output_file)]
                    ELSE fs @@ (output_file :> File(<<>>))
    /\ pc' = "opened"
    /\ UNCHANGED <<conv, todo, stdout, exitStatus, run, rendered, firstRun>>

\* the body of the with block, then print(success) in main
GenWrite ==
    /\ pc = "opened"
    /\ LET directory == Head(todo)
           root_path == PathJoin(<<>>, directory)
           root_name == Base(root_path)
           output_file == IndexPath(root_path)
           nested_list == generate_nested_list(root_path, root_path, 0)
       IN  /\ fs' = [fs EXCEPT ![output_file].content =
                        @ \o Header(root_name) \o Body(nested_list.out)]
           /\ rendered' = [root |-> root_path, out |-> nested_list.out,
                           src |-> nested_list.src, calls |-> nested_list.calls]
           /\ stdout' = Append(stdout, Msg("ok", output_file))
    /\ todo' = Tail(todo)
    /\ pc' = "loop"
    /\ UNCHANGED <<conv, invoked, exitStatus, run, firstRun>>

\* the for loop is over: main returns, the process exits with status 0
MainReturn ==
    /\ pc = "loop" /\ todo = <<>>
    /\ pc' = "done"
    /\ exitStatus' = 0
    /\ run' = run + 1
    /\ firstRun' = IF run = 0 THEN fs ELSE firstRun
    /\ UNCHANGED <<conv, fs, todo, invoked, stdout, rendered>>

Next ==
    \/ Mkdir \/ Touch \/ Chmod
    \/ MainListDenied \/ MainNoDirectories \/ MainBegin
    \/ GenOpenFails \/ GenOpen \/ GenWrite \/ MainReturn

Spec == Init /\ [][Next]_vars

\* ================================================================ claims
\* What the claims read: the last rendering (rendered) against the tree (fs).
\* Below a scan root the tree keeps its shape once the script has started, so
\* fs describes the directories as generate_nested_list saw them.
Out   == rendered.out
Where == rendered.src
Lines == 1..Len(rendered.out)
Called == {rendered.calls[i].path : i \in 1..Len(rendered.calls)}
HasRendered == rendered.root # <<>>
Ended == pc \in {"done", "exit1"}

IgnoredNames == {N_git, N_pycache, N_DS_Store}
HasBackslash(s) == \E i \in 1..Len(s) : s[i] = Backslash
Children(D) == {q \in DOMAIN fs : q # <<>> /\ Parent(q) = D}

\* What a directory holds, by the tree itself
IsMarkdownFile(q) ==
    /\ fs[q].kind = "file"
    /\ endswith(Base(q), DotMd)
    /\ Base(q) # N_index_md
IsListedDirectory(q) == fs[q].kind = "dir" /\ Base(q) \notin IgnoredNames
LinesFor(q) == {i \in Lines : Where[i] = [dir |-> Parent(q), item |-> Base(q)]}
DepthOf(D) == Len(D) - Len(rendered.root)

\* ---------------------------------------------------------------- C1
EntriesOnce(D) ==
    \A q \in Children(D) :
        (IsMarkdownFile(q) \/ IsListedDirectory(q)) =>
            /\ Cardinality(LinesFor(q)) = 1
            /\ \A i \in LinesFor(q) :
                 IF fs[q].kind = "dir"
                 THEN Out[i].kind = "dir" /\ Out[i].text = Base(q)
                 ELSE Out[i].kind = "file" /\ Out[i].text \o DotMd = Base(q)

\* C1 as stated: if every directory of the tree can be listed, every Markdown
\* file other than index.md and every non-ignored subdirectory directly in a
\* rendered directory D has exactly one bullet line at D's own level.
C1_Original ==
    (HasRendered /\ \A d \in Dirs : fs[d].r) =>
        \A D \in Called : EntriesOnce(D)

\* C1 amended: the same for every rendered directory D that can be listed and
\* searched (its entries can be examined).
C1_EntriesExactlyOnce ==
    HasRendered =>
        \A D \in Called : (fs[D].r /\ fs[D].x) => EntriesOnce(D)

\* A rendered directory below the scan root that holds a Markdown file and a
\* subdirectory named index.md, both listed.
C1_Witness ==
    /\ HasRendered
    /\ \E D \in Called :
         /\ D # rendered.root /\ fs[D].r /\ fs[D].x
         /\ \E q \in Children(D) : IsMarkdownFile(q) /\ LinesFor(q) # {}
    /\ \E D \in Called :
         \E q \in Children(D) :
            IsListedDirectory(q) /\ Base(q) = N_index_md /\ LinesFor(q) # {}

\* ---------------------------------------------------------------- C2
\* C2: among the lines of one rendered directory the file links come before the
\* directory bullets, and the names ascend within the files and within the
\* directories.
C2_FilesBeforeDirectories ==
    HasRendered =>
        \A i, j \in Lines :
            (i < j /\ Where[i].dir = Where[j].dir) =>
                /\ ~(Out[i].kind = "dir" /\ Out[j].kind = "file")
                /\ Out[i].kind = Out[j].kind => StrLess(Where[i].item, Where[j].item)

\* A file link precedes the bullet of a directory whose name sorts before the
\* file's, and that directory has two lines of one kind as well.
C2_Witness ==
    /\ HasRendered
    /\ \E i, j \in Lines :
         /\ i < j /\ Where[i].dir = Where[j].dir
         /\ Out[i].kind = "file" /\ Out[j].kind = "dir"
         /\ StrLess(Where[j].item, Where[i].item)
         /\ \E m \in Lines \ {i, j} :
              /\ Where[m].dir = Where[i].dir
              /\ Out[m].kind \in {"file", "dir"}

\* ---------------------------------------------------------------- C3
HasIgnored(path) == \E i \in 1..Len(path) : path[i] \in IgnoredNames

\* C3: no bullet is for a directory named .git, __pycache__ or .DS_Store,
\* generate_nested_list is never called at or below one, and main never calls
\* generate_markdown_index on one.
C3_IgnoredNeverListed ==
    /\ \A i \in Lines :
         /\ Where[i].item \notin IgnoredNames
         /\ Out[i].text \notin IgnoredNames
    /\ \A D \in Called : ~HasIgnored(D)
    /\ \A i \in 1..Len(invoked) : ~HasIgnored(invoked[i][1])

\* An ignored directory sits in a rendered directory below the scan root, and
\* the working directory holds an ignored directory too.
C3_Witness ==
    /\ HasRendered /\ Ended
    /\ \E D \in Called :
         /\ D # rendered.root /\ fs[D].r /\ fs[D].x
         /\ \E q \in Children(D) :
              fs[q].kind = "dir" /\ Base(q) \in IgnoredNames
    /\ \E q \in Children(<<>>) :
         fs[q].kind = "dir" /\ Base(q) \in IgnoredNames

\* ---------------------------------------------------------------- C4
\* C4: no emitted line is a link for a file named index.md.
C4_IndexNeverListed ==
    \A i \in Lines :
        Out[i].kind = "file" =>
            /\ Out[i].text \o DotMd # N_index_md
            /\ Out[i].link # N_index_md
            /\ ~endswith(Out[i].link, <<Slash>> \o N_index_md)
            /\ Where[i].item # N_index_md

\* The scan root holds the index.md just written and a rendered directory below
\* it holds an index.md file as well.
C4_Witness ==
    /\ HasRendered
    /\ IndexPath(rendered.root) \in DOMAIN fs
    /\ fs[IndexPath(rendered.root)].kind = "file"
    /\ \E D \in Called :
         /\ D # rendered.root /\ fs[D].r /\ fs[D].x
         /\ IndexPath(D) \in DOMAIN fs /\ fs[IndexPath(D)].kind = "file"
         /\ \E q \in Children(D) : LinesFor(q) # {}

\* ---------------------------------------------------------------- C5
\* The link of a file line without the file's own name at its end
LinkDirectory(l) == SubSeq(l.link, 1, Len(l.link) - (Len(l.text) + Len(DotMd)))
LinkFileName(l)  == SubSeq(l.link, Len(l.link) - (Len(l.text) + Len(DotMd)) + 1, Len(l.link))

\* C5 as stated: no link target holds a backslash.
C5_Original ==
    \A i \in Lines : Out[i].kind = "file" => ~HasBackslash(Out[i].link)

\* C5 amended: a link target ends with the file's name, kept as it is, and the
\* part before it holds no backslash: the target holds a backslash exactly when
\* the file's name does.
C5_NoBackslashBeforeFileName ==
    \A i \in Lines :
        Out[i].kind = "file" =>
            /\ LinkFileName(Out[i]) = Where[i].item
            /\ ~HasBackslash(LinkDirectory(Out[i]))
            /\ HasBackslash(Out[i].link) <=> HasBackslash(Where[i].item)

\* Under the backslash convention a file two directories below the scan root
\* is linked.
C5_Witness ==
    /\ conv = "nt"
    /\ \E i \in Lines :
         /\ Out[i].kind = "file"
         /\ Len(Where[i].dir) >= Len(rendered.root) + 2

\* ---------------------------------------------------------------- C6
Below(D) == {i \in Lines : Len(Where[i].dir) > Len(D) /\ SubSeq(Where[i].dir, 1, Len(D)) = D}
OwnLines(D) == {i \in Lines : Where[i].dir = D}

\* C6: a rendered directory D that cannot be listed contributes exactly the
\* line of 4*k spaces and the inaccessible marker, k its depth below the scan
\* root; nothing below D is visited or emitted; the line follows D's own bullet
\* at once, and the directories of D's parent still have their one bullet each,
\* in order, after it.
C6_DeniedIsOneLine ==
    HasRendered =>
        \A D \in Called :
            ~fs[D].r =>
                /\ Cardinality(OwnLines(D)) = 1
                /\ \A i \in OwnLines(D) :
                     /\ Out[i] = [kind |-> "denied", indent |-> 4 * DepthOf(D),
                                  text |-> <<>>, link |-> <<>>]
                     /\ D # rendered.root =>
                          /\ i > 1
                          /\ Where[i - 1] = [dir |-> Parent(D), item |-> Base(D)]
                     /\ i < Len(Out) => Len(Where[i + 1].dir) < Len(D)
                /\ Below(D) = {}
                /\ \A E \in Called : ~(Len(E) > Len(D) /\ SubSeq(E, 1, Len(D)) = D)
                /\ D # rendered.root =>
                     \A q \in Children(Parent(D)) :
                        IsListedDirectory(q) => Cardinality(LinesFor(q)) = 1

\* An unlistable directory below the scan root is followed in the output by
\* the bullet of a sibling directory.
C6_Witness ==
    /\ HasRendered
    /\ \E D \in Called :
         /\ ~fs[D].r /\ D # rendered.root
         /\ \E i \in OwnLines(D) :
              /\ i < Len(Out)
              /\ Out[i + 1].kind = "dir"
              /\ Where[i + 1].dir = Parent(D)

\* ---------------------------------------------------------------- C7
TopDirectories == {q \in Children(<<>>) : fs[q].kind = "dir" /\ Base(q) \notin IgnoredNames}

EveryDirectoryOnce ==
    /\ \A q \in TopDirectories :
         Cardinality({i \in 1..Len(invoked) : invoked[i] = <<q, Append(q, N_index_md)>>}) = 1
    /\ Len(invoked) = Cardinality(TopDirectories)
    /\ Len(stdout) >= Len(invoked)
    /\ \A q \in TopDirectories :
         Cardinality({i \in 1..Len(stdout) :
                        \/ stdout[i] = [msg |-> "ok", arg |-> Append(q, N_index_md)]
                        \/ stdout[i] = [msg |-> "error", arg |-> Base(q)]}) = 1
    /\ exitStatus = 0

\* C7 as stated: whenever the working directory can be listed, a run that has
\* ended has called generate_markdown_index once for each non-ignored
\* subdirectory, reported each, and exited with status 0.
C7_Original ==
    (Ended /\ run >= 1 /\ fs[<<>>].r) => EveryDirectoryOnce

\* C7 amended: the same when the working directory can be listed and searched.
C7_FailureIsolated ==
    (Ended /\ run >= 1 /\ fs[<<>>].r /\ fs[<<>>].x) => EveryDirectoryOnce

\* A run has ended in which the first directory failed and a later one was
\* written.
C7_Witness ==
    /\ Ended /\ run >= 1
    /\ Len(stdout) >= 2
    /\ stdout[1].msg = "error"
    /\ stdout[Len(stdout)].msg = "ok"

\* ---------------------------------------------------------------- C8
IndexFiles(f) == {q \in DOMAIN f : q # <<>> /\ Base(q) = N_index_md /\ f[q].kind = "file"}

\* C8: after a second run every index.md is what it was after the first run.
C8_Idempotent ==
    (Ended /\ run >= 2) =>
        /\ DOMAIN fs = DOMAIN firstRun
        /\ \A q \in IndexFiles(fs) : fs[q] = firstRun[q]

\* The second run has ended and has rewritten an index.md that lists a file
\* and that the first run had created beside an older index.md deeper down.
C8_Witness ==
    /\ Ended /\ run = 2
    /\ \E i \in 1..Len(stdout) :
         /\ stdout[i].msg = "ok"
         /\ Len(fs[stdout[i].arg].content) > 4
         /\ fs[stdout[i].arg].content[5].kind \in {"file", "dir"}

\* ---------------------------------------------------------------- C9
\* generate_markdown_index has completed for the scan root last rendered and
\* its output has not been opened again since.
Completed ==
    /\ HasRendered
    /\ ~(pc = "opened" /\ <<Head(todo)>> = rendered.root)

Written == fs[Append(rendered.root, N_index_md)].content
WrittenBody == SubSeq(Written, 5, Len(Written))
PlaceholderBody == <<[kind |-> "empty", indent |-> 0, text |-> <<>>, link |-> <<>>]>>
DeniedBody == <<[kind |-> "denied", indent |-> 0, text |-> <<>>, link |-> <<>>]>>
NoContent(D) == \A q \in Children(D) : ~IsMarkdownFile(q) /\ ~IsListedDirectory(q)

HeaderWritten ==
    /\ Len(Written) >= 5
    /\ Written[1] = [kind |-> "h1", indent |-> 0,
                     text |-> rendered.root[Len(rendered.root)], link |-> <<>>]
    /\ Written[2].kind = "blank"
    /\ Written[3].kind = "h2"
    /\ Written[4].kind = "blank"
    /\ Out # <<>> => WrittenBody = Out

\* C9 as stated: the file is the two headings and the body, and the body is the
\* placeholder exactly when the root holds nothing to list.
C9_Original ==
    Completed =>
        /\ HeaderWritten
        /\ (WrittenBody = PlaceholderBody) <=> NoContent(rendered.root)

\* C9 amended: the placeholder is the body exactly when the root can be listed
\* and holds nothing to list; a root that cannot be listed gets the single
\* inaccessible line as body.
C9_WrittenFile ==
    Completed =>
        /\ HeaderWritten
        /\ (WrittenBody = PlaceholderBody) <=>
               (fs[rendered.root].r /\ NoContent(rendered.root))
        /\ ~fs[rendered.root].r => WrittenBody = DeniedBody

\* An older index.md has been replaced by one with the placeholder body, in a
\* root that holds only files that are not listed.
C9_Witness ==
    /\ Completed
    /\ run = 0
    /\ WrittenBody = PlaceholderBody
    /\ Cardinality(Children(rendered.root)) >= 2

\* ---------------------------------------------------------------- C10
ExpectedLink(i) ==
    LET D == Where[i].dir
        k == DepthOf(D)
    IN  IF k = 0 THEN Where[i].item
        ELSE join(Slash, SubSeq(D, Len(rendered.root) + 1, Len(D)))
                 \o <<Slash>> \o Where[i].item

\* C10: the line of a Markdown file name.md reached through d1, ..., dk is 4*k
\* spaces and a link with text name and target d1/.../dk/name.md (name.md when
\* k = 0); the line of a directory at depth k is 4*k spaces and its name, and
\* what follows it at once are its contents, at depth k+1.
C10_LineFormat ==
    \A i \in Lines :
        /\ Out[i].kind = "file" =>
             Out[i] = [kind |-> "file", indent |-> 4 * DepthOf(Where[i].dir),
                       text |-> SubSeq(Where[i].item, 1, Len(Where[i].item) - 3),
                       link |-> ExpectedLink(i)]
        /\ Out[i].kind = "dir" =>
             /\ Out[i] = [kind |-> "dir", indent |-> 4 * DepthOf(Where[i].dir),
                          text |-> Where[i].item, link |-> <<>>]
             /\ LET sub == Append(Where[i].dir, Where[i].item)
                IN  \A j \in OwnLines(sub) \cup Below(sub) :
                        /\ j > i
                        /\ \A m \in i..j : m = i \/ m \in OwnLines(sub) \cup Below(sub)
                        /\ Out[j].indent >= 4 * (DepthOf(Where[i].dir) + 1)
====
